---- MODULE Spec2Model ----
(***************************************************************************)
(* Model of sgs-contact-notifier (package main, the version of the poll    *)
(* loop with the business-hours gate): main, checkContacts, sendToPOC.     *)
(*                                                                         *)
(* Time is counted in units of 1/Resolution hour since an epoch that is a  *)
(* Sunday 00:00 UTC.  The second Sunday after the epoch's week start is    *)
(* the day America/New_York switches from EST to EDT.                      *)
(***************************************************************************)
EXTENDS Integers, Sequences, FiniteSets

VARIABLES
    pc,        \* where the single goroutine of main is
    dbx,       \* main: the database handle, "nil" until the connection is made
    now,       \* the wall clock (an instant, in units since the epoch)
    hostZone,  \* the host's Local time zone (what time.Now() carries)
    sid,       \* os.Getenv("TWILIO_ACCOUNT_SID")
    auth,      \* os.Getenv("TWILIO_AUTH_TOKEN")
    fromNum,   \* os.Getenv("TWILIO_FROM_NUMBER")
    toNum,     \* os.Getenv("TWILIO_TO_NUMBER")
    nextTick,  \* the instant the ticker fires next
    tickBuf,   \* ticks buffered in tickChan (capacity 1)
    ticks,     \* how many times the ticker has fired
    firedSince, \* ticks fired since the loop last received one
    store,     \* the contacts table, in its natural order
    res,       \* checkContacts: the rows the query returned
    idx,       \* checkContacts: position of the range loop in res
    currTime,  \* main: the instant time.Now() returned in this cycle
    gateOut,   \* this cycle: "none", "open" (gate passed) or "closed"
    tzErr,     \* this cycle: time.LoadLocation returned an error
    queries,   \* this cycle: queries issued against the store
    attempts,  \* this cycle: the calls of sendToPOC, <<id, result>> each
    netCalls,  \* this cycle: HTTP requests handed to client.Do
    cycleErr,  \* this cycle: what checkContacts returned
    ackedAtFetch, \* this cycle: ids acknowledged in the table when it was queried
    errLogged, \* this cycle: log.Errorf was called
    dbErr,     \* this cycle: dbx.Select returned an error
    sleeps,    \* this cycle: calls of time.Sleep that have returned
    resp,      \* sendToPOC: what client.Do returned, NoResp outside the call
    msg,       \* this cycle: the form formatMessage built last
    cycles     \* ticks received by the loop so far

vars == <<pc, dbx, now, hostZone, sid, auth, fromNum, toNum, nextTick, tickBuf,
          ticks, firedSince, store, res, idx, currTime, gateOut, tzErr, queries,
          attempts, netCalls, cycleErr, ackedAtFetch, errLogged, dbErr, sleeps,
          resp, msg, cycles>>

(***************************************************************************)
(* Bounds of the model.                                                    *)
(***************************************************************************)
Resolution == 2      \* clock units per hour
MaxContacts == 2     \* rows the web form handler creates
MaxTicks == 3        \* times the ticker fires

(***************************************************************************)
(* Program constants.                                                      *)
(***************************************************************************)
TickHours == 3       \* time.Tick(3 * time.Hour)
StartHour == 9       \* time.Date(..., 9, 00, 00, 00, loc)
EndHour == 15        \* time.Date(..., 15, 00, 00, 00, loc)
Sunday == 0          \* time.Sunday
Saturday == 6        \* time.Saturday

UnitsPerDay == 24 * Resolution
TickPeriod == TickHours * Resolution

(***************************************************************************)
(* Time zones.  America/New_York: EST (UTC-5) until the second Sunday      *)
(* 02:00 EST = 07:00 UTC, EDT (UTC-4) from then on.                        *)
(***************************************************************************)
DSTStart == 7 * UnitsPerDay + 7 * Resolution

NYOffset(u) == IF u < DSTStart THEN -(5 * Resolution) ELSE -(4 * Resolution)

HostZones == {"America/New_York", "UTC", "Asia/Tokyo", "Pacific/Honolulu"}

\* the offset of the host's Local zone at instant u
LocalOffset(z, u) ==
    CASE z = "America/New_York" -> NYOffset(u)
      [] z = "UTC"              -> 0
      [] z = "Asia/Tokyo"       -> 9 * Resolution
      [] z = "Pacific/Honolulu" -> -(10 * Resolution)

\* currTime.Year(), currTime.Month(), currTime.Day(): the calendar day of
\* the instant in the location the Time value carries, which for time.Now()
\* is Local
LocalDay(z, t) == (t + LocalOffset(z, t)) \div UnitsPerDay

\* currTime.Weekday(): the weekday of that same calendar day
Weekday(day) == (Sunday + day) % 7

\* time.Date(y, m, d, hour, 0, 0, 0, loc) with loc = America/New_York: the
\* wall clock reading is taken as if UTC, the zone offset in force there is
\* looked up, and looked up again when the corrected instant falls on the
\* other side of a transition
Date(day, hour) ==
    LET unix == day * UnitsPerDay + hour * Resolution
        off1 == NYOffset(unix)
        utc  == unix - off1
        off  == IF (utc < DSTStart) = (unix < DSTStart) THEN off1 ELSE NYOffset(utc)
    IN  unix - off

\* faulty variant (C4): the weekend test is left out
ScheduleGateNoWeekend(t, z) ==
    LET day == LocalDay(z, t)
    IN  ~(t < Date(day, StartHour) \/ t > Date(day, EndHour))

\* main, lines 214-220: TRUE when the cycle may run
ScheduleGate(t, z) ==
    LET day   == LocalDay(z, t)
        start == Date(day, StartHour)
        end   == Date(day, EndHour)
    IN  ~(\/ t < start
          \/ t > end
          \/ Weekday(day) = Saturday
          \/ Weekday(day) = Sunday)

(***************************************************************************)
(* The contacts table and the query of checkContacts.                      *)
(***************************************************************************)
RECURSIVE Filter(_)
\* the rows of a table with acknowledged = false, in the table's order
Filter(rows) ==
    IF rows = <<>> THEN <<>>
    ELSE IF Head(rows).acknowledged THEN Filter(Tail(rows))
         ELSE <<Head(rows)>> \o Filter(Tail(rows))

\* the ids of the rows of a table that are acknowledged
Acknowledged(rows) == {rows[i].id : i \in {j \in 1..Len(rows) : rows[j].acknowledged}}

\* faulty variant (C9): the WHERE clause is left out
SelectAll(rows) == [table |-> rows, result |-> rows]

\* faulty variant (C10): the query marks what it returns as acknowledged
SelectAndMark(rows) ==
    [table  |-> [i \in 1..Len(rows) |-> [rows[i] EXCEPT !.acknowledged = TRUE]],
     result |-> Filter(rows)]

\* dbx.Select(&res, q), lines 236-242, when it succeeds: the table after the
\* statement and the rows scanned into res
Select(rows) == [table |-> rows, result |-> Filter(rows)]

\* faulty variant (C13): the error of the query is not looked at
ReturnsOnErrorNever(failed) == FALSE

\* lines 242-245: checkContacts returns when the query failed
ReturnsOnError(failed) == failed

\* faulty variant (C7): both credentials must be missing
CredsMissingBoth(s, a) == s = "" /\ a = ""

\* line 248
CredsMissing(s, a) == s = "" \/ a = ""

\* http.NewRequest fails (returns a nil request) when the URL built from the
\* account sid does not parse; its error is dropped at line 273
BadURL(s) == s = "%zz"

Sids == {"", "AC1", "%zz"}
Auths == {"", "tok"}

(***************************************************************************)
(* The message of sendToPOC.  A string is kept as the sequence of its      *)
(* pieces: the literal parts of the template and the values put in.        *)
(***************************************************************************)
\* the format string of lines 293-295, cut at its five verbs
msgToPOC ==
    << "We are being contacted by '",
       "' with email: '",
       "' and phone number '",
       "'for the following reason: '",
       "'.\nPlease acknowledged receipt of this contact by replying '",
       "' to this message." >>

\* fmt.Sprintf(format, args...): the pieces of the format with the arguments
\* in between, in the order given
Sprintf(format, args) ==
    [i \in 1..(Len(format) + Len(args)) |->
        IF i % 2 = 1 THEN format[(i + 1) \div 2] ELSE args[i \div 2]]

\* url.QueryEscape, piece by piece
QueryEscape(str) == [i \in 1..Len(str) |-> [escaped |-> str[i]]]

\* url.Values.Encode(): key=value pairs, sorted by key (byte order), every
\* value escaped
Encode(values) ==
    LET keys == <<"Body", "From", "To", "provideFeedback">>
    IN  [i \in 1..Len(keys) |-> <<keys[i], QueryEscape(values[keys[i]])>>]

\* faulty variant (C17): the identifier is not handed to Sprintf
formatMessageNoID(c, from, to) ==
    Encode([From |-> <<from>>, To |-> <<to>>, provideFeedback |-> <<"true">>,
            Body |-> Sprintf(SubSeq(msgToPOC, 1, 5),
                             <<c.name, c.email, c.phone, c.message>>)])

\* formatMessage, lines 292-302
formatMessage(c, from, to) ==
    Encode([From |-> <<from>>, To |-> <<to>>, provideFeedback |-> <<"true">>,
            Body |-> Sprintf(msgToPOC,
                             <<c.name, c.email, c.phone, c.message, c.id>>)])

(***************************************************************************)
(* The answers of the messaging provider.                                  *)
(***************************************************************************)
NoResp == [kind |-> "none", status |-> 0, bodyOK |-> FALSE]

\* client.Do failed: the response is nil
TransportError == [kind |-> "error", status |-> 0, bodyOK |-> FALSE]

Statuses == {199, 200, 299, 300}

\* what client.Do can come back with at line 278: a response with a status
\* and a body that is JSON or not, or no response
Responses ==
    [kind : {"response"}, status : Statuses, bodyOK : BOOLEAN] \cup {TransportError}

\* faulty variant (C16): a body that does not parse makes the send fail
SendResultBodyMatters(status, bodyOK) ==
    IF status >= 200 /\ status < 300 /\ bodyOK THEN "nil" ELSE "err"

\* sendToPOC, lines 279-289: the error it returns for a response
SendResult(status, bodyOK) ==
    IF status >= 200 /\ status < 300 THEN "nil" ELSE "err"

(***************************************************************************)
(* Control flow of main and checkContacts.                                 *)
(***************************************************************************)
\* faulty variant (C15): the connection error is logged, not fatal
AfterConnectNonFatal(ok) == "idle"

\* lines 200-206: log.Fatalf ends the process when the connection failed
AfterConnect(ok) == IF ok THEN "idle" ELSE "exited"

\* faulty variant (C20): the ticker's channel takes every tick
DepositUnbounded(buf) == buf + 1

\* the ticker's send on the channel of time.Tick (line 206): the channel
\* holds one tick, a tick that finds it full is dropped
Deposit(buf) == IF buf < 1 THEN buf + 1 ELSE buf

\* faulty variant (C11): the tick is handled whatever the loop is doing
CanReceiveAlways(p) == p \in {"idle", "fetching", "sending", "responded", "sleeping"}

\* lines 207-209: main receives from tickChan only when it is in the select;
\* checkContacts is called in the same goroutine (line 226)
CanReceive(p) == p = "idle"

\* faulty variant (C6): the continue of line 223 is missing
AfterGateNoSkip(open) == "fetching"

\* lines 217-225: where the loop goes once the gate is evaluated
AfterGate(open) == IF open THEN "fetching" ELSE "idle"

\* faulty variant (C12): the pause is taken only after a failed send
PauseOnErrorOnly(result) == result = "err"

\* line 257: time.Sleep follows every send
Pause(result) == TRUE

\* faulty variant (C18): the gate is evaluated again before each contact
ContinueBatchGated(t, z) == ScheduleGate(t, z)

\* line 251: the range loop goes on whatever the time is
ContinueBatch(t, z) == TRUE

(***************************************************************************)
(* The instants the process may be started at: a Friday noon, a Saturday   *)
(* morning and the Monday morning after the switch to EDT (UTC hours).     *)
(***************************************************************************)
At(day, hour) == day * UnitsPerDay + hour * Resolution

StartInstants == {At(5, 14), At(6, 11), At(8, 10)}

\* the row the web form handler writes for a submission
Row(i) ==
    [id |-> i, name |-> "Jane Doe", email |-> "jane@x.com", phone |-> "555-1234",
     message |-> "Leak in gutter", acknowledged |-> FALSE]

Init ==
    /\ pc = "connecting"
    /\ dbx = "nil"
    /\ now \in StartInstants
    /\ hostZone \in {"America/New_York", "Asia/Tokyo"}
    /\ sid \in Sids
    /\ auth \in Auths
    /\ fromNum = "+15550001"
    /\ toNum = "+15550002"
    /\ nextTick = 0
    /\ tickBuf = 0
    /\ ticks = 0
    /\ firedSince = 0
    /\ store = <<>>
    /\ res = <<>>
    /\ idx = 0
    /\ currTime = 0
    /\ gateOut = "none"
    /\ tzErr = FALSE
    /\ queries = 0
    /\ attempts = <<>>
    /\ netCalls = 0
    /\ cycleErr = "none"
    /\ ackedAtFetch = {}
    /\ errLogged = FALSE
    /\ dbErr = FALSE
    /\ sleeps = 0
    /\ resp = NoResp
    /\ msg = <<>>
    /\ cycles = 0

cycleVars == <<res, idx, currTime, gateOut, tzErr, queries, attempts,
               netCalls, cycleErr, ackedAtFetch, errLogged, dbErr, sleeps,
               resp, msg, cycles>>
envVars == <<hostZone, sid, auth, fromNum, toNum>>
timerVars == <<nextTick, tickBuf, ticks, firedSince>>

\* what client.Do can fail with at startup: sqlx.ConnectContext, bounded by
\* the 5 second context
ConnectOutcomes == {"ok", "refused", "timeout"}

\* main, lines 196-206: the initial connection; log.Fatalf exits the process
Connect ==
    /\ pc = "connecting"
    /\ \E out \in ConnectOutcomes :
         /\ dbx' = IF out = "ok" THEN "open" ELSE "nil"
         /\ pc' = AfterConnect(out = "ok")
         /\ nextTick' = IF AfterConnect(out = "ok") = "idle"
                        THEN now + TickPeriod ELSE nextTick
    /\ UNCHANGED <<now, envVars, tickBuf, ticks, firedSince, store, cycleVars>>

\* time passes, an hour at a time; the ticker fires on time
Advance ==
    /\ pc \notin {"connecting", "exited", "panicked"}
    /\ now + Resolution <= nextTick
    /\ now' = now + Resolution
    /\ UNCHANGED <<pc, dbx, envVars, timerVars, store, cycleVars>>

\* the runtime's ticker behind time.Tick (line 206): every period it puts a
\* tick in the channel unless one is already buffered
TimerFire ==
    /\ pc \notin {"connecting", "exited", "panicked"}
    /\ now = nextTick
    /\ ticks < MaxTicks
    /\ ticks' = ticks + 1
    /\ firedSince' = firedSince + 1
    /\ nextTick' = nextTick + TickPeriod
    /\ tickBuf' = Deposit(tickBuf)
    /\ UNCHANGED <<pc, dbx, now, envVars, store, cycleVars>>

\* main, lines 209-225: a tick is received, the location is loaded and the
\* gate evaluated.  With a nil location time.Date panics.
RecvTick ==
    /\ CanReceive(pc)
    /\ tickBuf >= 1
    /\ tickBuf' = tickBuf - 1
    /\ firedSince' = tickBuf - 1
    /\ cycles' = cycles + 1
    /\ res' = <<>>
    /\ idx' = 0
    /\ queries' = 0
    /\ attempts' = <<>>
    /\ netCalls' = 0
    /\ cycleErr' = "none"
    /\ ackedAtFetch' = {}
    /\ dbErr' = FALSE
    /\ sleeps' = 0
    /\ resp' = NoResp
    /\ msg' = <<>>
    /\ \E locOK \in BOOLEAN :
         IF locOK
         THEN /\ tzErr' = FALSE
              /\ errLogged' = FALSE
              /\ currTime' = now
              /\ gateOut' = IF ScheduleGate(now, hostZone) THEN "open" ELSE "closed"
              /\ pc' = AfterGate(ScheduleGate(now, hostZone))
         ELSE /\ tzErr' = TRUE
              /\ errLogged' = TRUE
              /\ currTime' = now
              /\ gateOut' = "none"
              /\ pc' = "panicked"
    /\ UNCHANGED <<dbx, now, envVars, nextTick, ticks, store>>

\* faulty variant (C19): the credentials are looked at before the query
checkContactsCredsFirst ==
    /\ pc = "fetching"
    /\ IF CredsMissing(sid, auth)
       THEN /\ cycleErr' = "creds"
            /\ errLogged' = TRUE
            /\ pc' = "idle"
            /\ UNCHANGED <<queries, dbErr, store, res, idx, ackedAtFetch>>
       ELSE /\ queries' = queries + 1
            /\ store' = store
            /\ \E ok \in BOOLEAN :
                 /\ dbErr' = ~ok
                 /\ IF ~ok
                    THEN /\ cycleErr' = "query"
                         /\ errLogged' = TRUE
                         /\ pc' = "idle"
                         /\ UNCHANGED <<res, idx, ackedAtFetch>>
                    ELSE /\ ackedAtFetch' = Acknowledged(store)
                         /\ res' = Filter(store)
                         /\ errLogged' = errLogged
                         /\ cycleErr' = IF Filter(store) = <<>> THEN "nil" ELSE cycleErr
                         /\ pc' = IF Filter(store) = <<>> THEN "idle" ELSE "sending"
                         /\ idx' = IF Filter(store) = <<>> THEN idx ELSE 1
    /\ UNCHANGED <<dbx, now, envVars, timerVars, currTime, gateOut, tzErr,
                   attempts, netCalls, sleeps, resp, msg, cycles>>

\* checkContacts, lines 234-250 and the loop head of line 251, and the
\* error branch of main (lines 226-229)
checkContacts ==
    /\ pc = "fetching"
    /\ queries' = queries + 1
    /\ \E ok \in BOOLEAN :
         /\ dbErr' = ~ok
         /\ IF ReturnsOnError(~ok)
            THEN /\ cycleErr' = "query"
                 /\ errLogged' = TRUE
                 /\ pc' = "idle"
                 /\ UNCHANGED <<store, res, idx, ackedAtFetch>>
            ELSE /\ store' = Select(store).table
                 /\ ackedAtFetch' = Acknowledged(store)
                 /\ res' = Select(store).result
                 /\ IF CredsMissing(sid, auth)
                    THEN /\ cycleErr' = "creds"
                         /\ errLogged' = TRUE
                         /\ pc' = "idle"
                         /\ idx' = idx
                    ELSE IF Select(store).result = <<>>
                    THEN /\ cycleErr' = "nil"
                         /\ errLogged' = errLogged
                         /\ pc' = "idle"
                         /\ idx' = idx
                    ELSE /\ cycleErr' = cycleErr
                         /\ errLogged' = errLogged
                         /\ pc' = "sending"
                         /\ idx' = 1
    /\ UNCHANGED <<dbx, now, envVars, timerVars, currTime, gateOut, tzErr,
                   attempts, netCalls, sleeps, resp, msg, cycles>>

\* the range loop of checkContacts moves on (lines 251 and 259-260): the
\* next contact, or the return to the select of main
LoopAdvance ==
    IF idx < Len(res) /\ ContinueBatch(now, hostZone)
    THEN /\ idx' = idx + 1
         /\ pc' = "sending"
         /\ cycleErr' = cycleErr
    ELSE /\ idx' = idx
         /\ pc' = "idle"
         /\ cycleErr' = "nil"

\* sendToPOC, lines 263-278, called at line 253 for res[idx]: the message is
\* built, the request set up and handed to client.Do, which comes back
sendToPOC ==
    /\ pc = "sending"
    /\ msg' = formatMessage(res[idx], fromNum, toNum)
    /\ IF BadURL(sid)
       THEN \* req is nil: req.SetBasicAuth dereferences it
            /\ attempts' = Append(attempts, <<res[idx].id, "panic">>)
            /\ pc' = "panicked"
            /\ UNCHANGED <<netCalls, resp>>
       ELSE /\ attempts' = Append(attempts, <<res[idx].id, "pending">>)
            /\ netCalls' = netCalls + 1
            /\ pc' = "responded"
            /\ resp' \in Responses
    /\ UNCHANGED <<dbx, now, envVars, timerVars, store, res, idx, currTime,
                   gateOut, tzErr, queries, cycleErr, ackedAtFetch, errLogged,
                   dbErr, sleeps, cycles>>

\* sendToPOC, lines 279-289, and the logging of its error at lines 254-256
sendToPOCReturn ==
    /\ pc = "responded"
    /\ resp' = NoResp
    /\ IF resp = TransportError
       THEN \* resp is nil: resp.StatusCode dereferences it
            /\ attempts' = [attempts EXCEPT ![Len(attempts)][2] = "panic"]
            /\ pc' = "panicked"
            /\ UNCHANGED <<errLogged, idx, cycleErr>>
       ELSE LET result == SendResult(resp.status, resp.bodyOK)
            IN  /\ attempts' = [attempts EXCEPT ![Len(attempts)][2] = result]
                /\ errLogged' = (errLogged \/ result = "err")
                /\ IF Pause(result)
                   THEN /\ pc' = "sleeping"
                        /\ UNCHANGED <<idx, cycleErr>>
                   ELSE LoopAdvance
    /\ UNCHANGED <<dbx, now, envVars, timerVars, store, res, currTime, gateOut,
                   tzErr, queries, netCalls, ackedAtFetch, dbErr, sleeps, msg,
                   cycles>>

\* checkContacts, lines 257-260: the pause after a send, then the next
\* contact or the return to the loop of main
Sleep ==
    /\ pc = "sleeping"
    /\ sleeps' = sleeps + 1
    /\ LoopAdvance
    /\ UNCHANGED <<dbx, now, envVars, timerVars, store, res, currTime, gateOut,
                   tzErr, queries, attempts, netCalls, ackedAtFetch, errLogged,
                   dbErr, resp, msg, cycles>>

(***************************************************************************)
(* The external actors on the contacts table.                              *)
(***************************************************************************)
\* the web form handler inserts a row
CreateContact ==
    /\ Len(store) < MaxContacts
    /\ store' = Append(store, Row(Len(store) + 1))
    /\ UNCHANGED <<pc, dbx, now, envVars, timerVars, cycleVars>>

\* the recipient of the text acknowledges a contact
AcknowledgeContact ==
    /\ \E i \in 1..Len(store) :
         /\ ~store[i].acknowledged
         /\ store' = [store EXCEPT ![i].acknowledged = TRUE]
    /\ UNCHANGED <<pc, dbx, now, envVars, timerVars, cycleVars>>

Next ==
    \/ Connect
    \/ Advance
    \/ TimerFire
    \/ RecvTick
    \/ checkContacts
    \/ sendToPOC
    \/ sendToPOCReturn
    \/ Sleep
    \/ CreateContact
    \/ AcknowledgeContact

Spec == Init /\ [][Next]_vars

(***************************************************************************)
(* The gate alone, for every instant of nine days (a Monday to the Tuesday *)
(* of the following week, the switch to EDT in between) and every host     *)
(* zone: the loop is idle with a tick buffered and receives it.            *)
(***************************************************************************)
Instants == At(1, 0) .. (At(10, 0) - 1)

GateInit ==
    /\ pc = "idle"
    /\ dbx = "open"
    /\ now \in Instants
    /\ hostZone \in HostZones
    /\ sid = "AC1"
    /\ auth = "tok"
    /\ fromNum = "+15550001"
    /\ toNum = "+15550002"
    /\ nextTick = now + TickPeriod
    /\ tickBuf = 1
    /\ ticks = MaxTicks
    /\ firedSince = 1
    /\ store = <<>>
    /\ res = <<>>
    /\ idx = 0
    /\ currTime = 0
    /\ gateOut = "none"
    /\ tzErr = FALSE
    /\ queries = 0
    /\ attempts = <<>>
    /\ netCalls = 0
    /\ cycleErr = "none"
    /\ ackedAtFetch = {}
    /\ errLogged = FALSE
    /\ dbErr = FALSE
    /\ sleeps = 0
    /\ resp = NoResp
    /\ msg = <<>>
    /\ cycles = 0

GateNext == RecvTick

SpecGate == GateInit /\ [][GateNext]_vars

(***************************************************************************)
(* The send alone, for contacts with every combination of a few field      *)
(* values (empty ones, values that recur in another field, characters that *)
(* need escaping): a cycle has fetched one contact and is about to send.   *)
(***************************************************************************)
SampleContacts ==
    [id : {1, 2},
     name : {"Jane Doe", ""},
     email : {"jane@x.com", "Jane Doe"},
     phone : {"555-1234", "jane@x.com"},
     message : {"Leak in gutter", "it's 100% & more"},
     acknowledged : {FALSE}]

FormatInit ==
    /\ pc = "sending"
    /\ dbx = "open"
    /\ now = At(8, 14)
    /\ hostZone = "America/New_York"
    /\ sid = "AC1"
    /\ auth = "tok"
    /\ fromNum \in {"+15550001", ""}
    /\ toNum = "+15550002"
    /\ nextTick = now + TickPeriod
    /\ tickBuf = 0
    /\ ticks = MaxTicks
    /\ firedSince = 0
    /\ \E c \in SampleContacts : store = <<c>> /\ res = <<c>>
    /\ idx = 1
    /\ currTime = now
    /\ gateOut = "open"
    /\ tzErr = FALSE
    /\ queries = 1
    /\ attempts = <<>>
    /\ netCalls = 0
    /\ cycleErr = "none"
    /\ ackedAtFetch = {}
    /\ errLogged = FALSE
    /\ dbErr = FALSE
    /\ sleeps = 0
    /\ resp = NoResp
    /\ msg = <<>>
    /\ cycles = 1

FormatNext == sendToPOC \/ sendToPOCReturn \/ Sleep

SpecFormat == FormatInit /\ [][FormatNext]_vars

(***************************************************************************)
(* Vocabulary of the properties.                                           *)
(***************************************************************************)
\* the wall clock of America/New_York at instant t
NYWall(t) == t + NYOffset(t)
NYWeekday(t) == (NYWall(t) \div UnitsPerDay) % 7
NYTimeOfDay(t) == NYWall(t) % UnitsPerDay

\* Monday-Friday, 09:00-15:00 on the New York wall clock
InWindowNY(t) ==
    /\ NYWeekday(t) \in 1..5
    /\ NYTimeOfDay(t) >= 9 * Resolution
    /\ NYTimeOfDay(t) <= 15 * Resolution

\* the loop has received a tick and is through with it: back in the select,
\* or the process is gone
CycleOver == cycles > 0 /\ pc \in {"idle", "panicked"}

\* this cycle passed the gate, its query succeeded and both credentials are set
CycleRuns ==
    /\ gateOut = "open"
    /\ queries = 1
    /\ cycleErr # "query"
    /\ sid # ""
    /\ auth # ""

Ids(rows) == [i \in 1..Len(rows) |-> rows[i].id]
AttemptIds == [i \in 1..Len(attempts) |-> attempts[i][1]]
AttemptsOn(id) == Cardinality({i \in 1..Len(attempts) : attempts[i][1] = id})

(***************************************************************************)
(* C1: when a cycle that passed the gate, fetched successfully and has     *)
(* both credentials is over, the contacts attempted in it are exactly the  *)
(* contacts the fetch returned, in result order, whatever each send did.   *)
(***************************************************************************)
C1_AttemptsAreFetchedContacts == (CycleOver /\ CycleRuns) => AttemptIds = Ids(res)

(***************************************************************************)
(* C2: once the poll loop has received a tick the process never stops.     *)
(***************************************************************************)
C2_LoopNeverStops == cycles > 0 => pc \notin {"exited", "panicked"}

(***************************************************************************)
(* C3: a cycle whose time zone lookup failed is skipped without a crash:   *)
(* the loop is idle again, no query and no notification attempt was made.  *)
(***************************************************************************)
C3_ZoneFailureSkipsCycle ==
    tzErr => (pc = "idle" /\ queries = 0 /\ attempts = <<>>)

(***************************************************************************)
(* C4: whenever the gate was evaluated at an instant that lies outside     *)
(* Monday-Friday 09:00-15:00 New York time, it came out closed, whatever   *)
(* the host's time zone.                                                   *)
(***************************************************************************)
C4_GateClosedOutsideWindow ==
    (gateOut # "none" /\ ~InWindowNY(currTime)) => gateOut = "closed"

\* a host in Tokyo evaluates the gate on a New York weekday after 15:00
C4_Witness ==
    /\ gateOut = "closed"
    /\ hostZone = "Asia/Tokyo"
    /\ NYWeekday(currTime) \in 1..5
    /\ NYTimeOfDay(currTime) > 15 * Resolution

(***************************************************************************)
(* C5: whenever the gate was evaluated at an instant that lies inside      *)
(* Monday-Friday 09:00-15:00 New York time, it came out open, whatever     *)
(* the host's time zone.                                                   *)
(***************************************************************************)
C5_GateOpenInsideWindow ==
    (gateOut # "none" /\ InWindowNY(currTime)) => gateOut = "open"

(***************************************************************************)
(* C6: a cycle whose gate came out closed is skipped: the loop waits for   *)
(* the next tick, no query was issued, no notification attempted, no       *)
(* request sent and no error logged.                                       *)
(***************************************************************************)
C6_ClosedGateSkipsCycle ==
    gateOut = "closed" =>
        /\ pc = "idle"
        /\ queries = 0
        /\ attempts = <<>>
        /\ netCalls = 0
        /\ cycleErr = "none"
        /\ ~errLogged

\* a closed gate while an unacknowledged contact is waiting in the table
C6_Witness ==
    /\ gateOut = "closed"
    /\ pc = "idle"
    /\ \E i \in 1..Len(store) : ~store[i].acknowledged

(***************************************************************************)
(* C7: with either credential missing no send is ever attempted and no     *)
(* request made, and a cycle that got through its query ends with the      *)
(* credentials error, logged, the loop waiting for the next tick.          *)
(***************************************************************************)
C7_MissingCredentialAborts ==
    (sid = "" \/ auth = "") =>
        /\ attempts = <<>>
        /\ netCalls = 0
        /\ pc \notin {"sending", "responded", "sleeping"}
        /\ pc = "panicked" => tzErr
        /\ (gateOut = "open" /\ queries = 1 /\ cycleErr # "query") =>
               (cycleErr = "creds" /\ errLogged /\ pc = "idle")

\* only the auth token is missing and the query returned two contacts
C7_Witness ==
    /\ sid = "AC1"
    /\ auth = ""
    /\ cycleErr = "creds"
    /\ Len(res) = 2
    /\ pc = "idle"

(***************************************************************************)
(* C8: when a cycle that passed the gate, fetched successfully and has     *)
(* both credentials is over, every contact that was unacknowledged at the  *)
(* fetch has been attempted exactly once in it.                            *)
(***************************************************************************)
C8_EachFetchedContactAttemptedOnce ==
    (CycleOver /\ CycleRuns) => \A i \in 1..Len(res) : AttemptsOn(res[i].id) = 1

(***************************************************************************)
(* C9: a contact that was acknowledged when the cycle's query ran is not   *)
(* among the rows it returned and is not attempted in that cycle.          *)
(***************************************************************************)
C9_AcknowledgedNeverNotified ==
    /\ \A i \in 1..Len(res) : res[i].id \notin ackedAtFetch
    /\ \A i \in 1..Len(attempts) : attempts[i][1] \notin ackedAtFetch

\* a finished cycle that found one contact acknowledged and notified another
C9_Witness ==
    /\ pc = "idle"
    /\ cycleErr = "nil"
    /\ ackedAtFetch # {}
    /\ attempts # <<>>

(***************************************************************************)
(* C10: a step that changes the contacts table is no step of the program   *)
(* (it leaves the program's position and the cycle's data alone), and a    *)
(* cycle that passed the gate has issued exactly one query once it is past *)
(* the fetch, any other cycle none.                                        *)
(***************************************************************************)
C10_StoreReadOnlyOneQuery ==
    /\ [][store' # store => UNCHANGED <<pc, cycleVars>>]_vars
    /\ [](queries = IF gateOut = "open" /\ pc # "fetching" THEN 1 ELSE 0)

\* a cycle ran to its end, notified a contact, and the contact is still
\* unacknowledged in the table
C10_Witness ==
    /\ pc = "idle"
    /\ cycleErr = "nil"
    /\ queries = 1
    /\ \E i \in 1..Len(attempts) :
         /\ attempts[i][1] \in 1..Len(store)
         /\ ~store[attempts[i][1]].acknowledged

(***************************************************************************)
(* C11: a new cycle starts (a tick is received) only when the loop is back *)
(* in its select, never while a cycle is running, and a send starts only   *)
(* when no send is in progress.                                            *)
(***************************************************************************)
C11_OneCycleAtATime ==
    [][/\ cycles' # cycles => (pc = "idle" /\ tickBuf = 1)
       /\ (cycles' = cycles /\ Len(attempts') # Len(attempts)) =>
              /\ pc = "sending"
              /\ resp = NoResp
              /\ Len(attempts') = Len(attempts) + 1]_vars

\* a tick is waiting in the channel while a send is in progress
C11_Witness == pc = "responded" /\ tickBuf = 1 /\ Len(res) = 2

(***************************************************************************)
(* C12: the number of attempts made never runs more than one ahead of the  *)
(* number of pauses completed, and when an attempt is about to start every *)
(* earlier attempt has returned and been followed by its full pause.       *)
(***************************************************************************)
C12_PauseBetweenAttempts ==
    /\ Len(attempts) - sleeps \in {0, 1}
    /\ pc = "sending" => sleeps = Len(attempts)
    /\ pc \in {"responded", "sleeping"} => sleeps = Len(attempts) - 1

\* the second attempt is about to start, after a failed first one and a pause
C12_Witness ==
    /\ pc = "sending"
    /\ idx = 2
    /\ sleeps = 1
    /\ attempts[1][2] = "err"

(***************************************************************************)
(* C13: a cycle whose query failed ends with the query error, logged, with *)
(* no rows kept, no notification attempt and no request, and the loop      *)
(* waits for the next tick.                                                *)
(***************************************************************************)
C13_QueryFailureAbortsCycle ==
    dbErr =>
        /\ pc = "idle"
        /\ cycleErr = "query"
        /\ errLogged
        /\ queries = 1
        /\ res = <<>>
        /\ attempts = <<>>
        /\ netCalls = 0

\* the query failed with credentials set and a contact waiting
C13_Witness ==
    /\ dbErr
    /\ sid = "AC1"
    /\ auth = "tok"
    /\ \E i \in 1..Len(store) : ~store[i].acknowledged

(***************************************************************************)
(* C14: the loop has no terminal state: a cycle that has begun and is not  *)
(* back in the select can always take its next step.                       *)
(***************************************************************************)
C14_CycleAlwaysProceeds ==
    (cycles > 0 /\ pc # "idle") =>
        ENABLED (checkContacts \/ sendToPOC \/ sendToPOCReturn \/ Sleep)

(***************************************************************************)
(* C15: as long as there is no database handle the process is connecting   *)
(* or has exited, and nothing of the loop has happened: no ticker, no tick *)
(* received, no gate evaluation, no query, no attempt, no request.         *)
(***************************************************************************)
C15_NoConnectionNoLoop ==
    dbx = "nil" =>
        /\ pc \in {"connecting", "exited"}
        /\ ticks = 0
        /\ tickBuf = 0
        /\ cycles = 0
        /\ gateOut = "none"
        /\ queries = 0
        /\ attempts = <<>>
        /\ netCalls = 0

\* the connection failed and the process has exited
C15_Witness == pc = "exited" /\ dbx = "nil"

(***************************************************************************)
(* C16: when sendToPOC returns for a response, it returns nil exactly when *)
(* the status is in 200..299 and an error otherwise, whether the body      *)
(* parsed or not, and the loop goes on to its pause either way.            *)
(***************************************************************************)
C16_SuccessIffStatus2xx ==
    [][(pc = "responded" /\ pc' # "responded" /\ resp.kind = "response") =>
          /\ attempts'[Len(attempts')][2] =
                 IF resp.status \in 200..299 THEN "nil" ELSE "err"
          /\ pc' = "sleeping"]_vars

\* a 2xx response whose body does not parse has come back
C16_Witness ==
    /\ pc = "responded"
    /\ resp.kind = "response"
    /\ resp.status = 299
    /\ ~resp.bodyOK

(***************************************************************************)
(* C17: the form built for a contact has the Body first, and the Body is   *)
(* the fixed template with the contact's name, email, phone, message and   *)
(* identifier, in this order, in its five places; From and To carry the    *)
(* configured numbers.                                                     *)
(***************************************************************************)
C17_BodyEmbedsFields ==
    pc \in {"responded", "sleeping"} =>
        LET c    == res[idx]
            body == msg[1][2]
        IN  /\ Len(msg) = 4
            /\ msg[1][1] = "Body"
            /\ Len(body) = 11
            /\ \A k \in 1..6 : body[2 * k - 1].escaped = msgToPOC[k]
            /\ body[2].escaped = c.name
            /\ body[4].escaped = c.email
            /\ body[6].escaped = c.phone
            /\ body[8].escaped = c.message
            /\ body[10].escaped = c.id
            /\ msg[2] = <<"From", <<[escaped |-> fromNum]>>>>
            /\ msg[3] = <<"To", <<[escaped |-> toNum]>>>>

\* the contact of the example has been formatted and sent
C17_Witness ==
    /\ pc = "sleeping"
    /\ msg # <<>>
    /\ res[1].name = "Jane Doe"
    /\ res[1].email = "jane@x.com"
    /\ res[1].phone = "555-1234"
    /\ res[1].message = "Leak in gutter"

(***************************************************************************)
(* C18: attempts are made only in a cycle whose gate came out open at its  *)
(* tick, the gate's instant stays the one of the tick while the batch      *)
(* runs, and a batch that ends has gone through every contact fetched,     *)
(* whatever the time has become meanwhile.                                 *)
(***************************************************************************)
C18_GateOncePerCycle ==
    /\ attempts # <<>> => gateOut = "open"
    /\ pc \in {"fetching", "sending", "responded", "sleeping"} =>
           (gateOut = "open" /\ currTime <= now)
    /\ (pc = "idle" /\ cycleErr = "nil") => Len(attempts) = Len(res)

\* the request for the second contact was made after the window had closed
C18_Witness ==
    /\ pc = "responded"
    /\ Len(attempts) = 2
    /\ InWindowNY(currTime)
    /\ ~InWindowNY(now)

(***************************************************************************)
(* C19: a cycle that ends on the credentials error has issued its query,   *)
(* which succeeded; a failed query ends the cycle on the query error,      *)
(* credentials or not; and with a credential missing a cycle that passed   *)
(* the gate and is over has issued exactly one query.                      *)
(***************************************************************************)
C19_QueryBeforeCredentials ==
    /\ cycleErr = "creds" => (queries = 1 /\ ~dbErr)
    /\ dbErr => cycleErr = "query"
    /\ ((sid = "" \/ auth = "") /\ gateOut = "open" /\ pc = "idle") => queries = 1

\* the query failed in a cycle without auth token: the query error is returned
C19_Witness ==
    /\ auth = ""
    /\ dbErr
    /\ cycleErr = "query"

(***************************************************************************)
(* C20: the channel never holds more than one tick, however many ticks     *)
(* have fired since the loop last received one.                            *)
(***************************************************************************)
C20_AtMostOneDeferredTick ==
    /\ tickBuf \in {0, 1}
    /\ tickBuf = 1 <=> firedSince >= 1

\* two ticks have fired during a cycle and one is waiting
C20_Witness ==
    /\ pc \in {"sending", "responded", "sleeping"}
    /\ firedSince >= 2
    /\ tickBuf = 1

====
